---- MODULE Spec2Model ----
(***************************************************************************)
(* Model of scraper/main.py: fetchCourses (the fetch loop over the         *)
(* department x cohort pairs), convertJsonToCsv (the per-cohort CSV        *)
(* export) and the __main__ entry point that runs one after the other.     *)
(*                                                                         *)
(* The remote API is the environment: each session.get either raises,      *)
(* returns a non-200 response, or returns a 200 response whose body does   *)
(* not parse, parses to a JSON object, or parses to a JSON list.           *)
(***************************************************************************)
EXTENDS Integers, Sequences, FiniteSets, TLC

VARIABLES
    pc,               \* position of the program
    gi, di,           \* indices of the loop variables gndr (in stdGnr) and dept (in deptid)
    maleCoursesJson,  \* accumulator of cohort "11"
    femaleCoursesJson,\* accumulator of cohort "12"
    gender,           \* the local variable gender: "Unbound" until first assigned
    exc,              \* exception propagating out of the loop, "none" when there is none
    closeCount,       \* number of session.close() calls so far
    requests,         \* the (dept, gndr) pairs session.get was called with, in order
    sleeps,           \* number of time.sleep(1) calls so far
    lastOutcome,      \* outcome of the most recent request attempt
    printed,          \* line printed by the most recent iteration, NoLine if none
    received,         \* the JSON lists received so far, each with the cohort of its
                      \* request and whether that was the first request of the run
    fs,               \* the output directory: whether it exists, and its two files
    egi,              \* index of the export loop variable gndr (in gndrs)
    written,          \* cohorts whose file the current convertJsonToCsv call wrote
    fsAtCall,         \* fs as it was when the current convertJsonToCsv call started
    calls             \* number of convertJsonToCsv calls started

vars == <<pc, gi, di, maleCoursesJson, femaleCoursesJson, gender, exc, closeCount,
          requests, sleeps, lastOutcome, printed, received, fs, egi, written,
          fsAtCall, calls>>

fetchVars == <<gi, di, maleCoursesJson, femaleCoursesJson, gender, exc, closeCount,
               requests, sleeps, lastOutcome, printed, received>>

exportVars == <<fs, egi, written, fsAtCall, calls>>

----------------------------------------------------------------------------
(* Program constants *)

deptid == <<"0901", "0911", "0921", "0902", "0912", "0922",
            "0903", "0913", "0923", "0904", "0914", "0924">>

stdGnr == <<"11", "12">>

cols == <<"Course", "CRN", "Division", "Availability", "CourseTitle",
          "Activity", "Hours", "Days", "Time", "Teacher">>

gndrs == <<"male", "female">>

----------------------------------------------------------------------------
(* Bounds of the environment *)

\* at most this many requests of one run are answered with a JSON list
MaxListResponses == 2

\* longest accumulator handed to convertJsonToCsv when it is checked on its own
MaxLen == 2

\* convertJsonToCsv is called at most this many times in a row on the same accumulators
MaxCalls == 2

\* course records the API may return; keys inside and outside cols, records
\* that lack expected keys
r1 == [Course |-> "101", Foo |-> "x"]
r2 == [Course |-> "102", CRN |-> "5"]
r3 == [Foo |-> "y"]
r4 == [Teacher |-> "T", CRN |-> "6"]

Records == {r1, r2, r3, r4}

\* JSON list bodies of a 200 response
Bodies == {<<>>, <<r1>>, <<r1, r2>>}

\* what response.json() returns: a list, or an object (iterating it yields its keys)
JsonList(body) == [isList |-> TRUE, items |-> body]
JsonObject == [isList |-> FALSE, items |-> <<"error">>]
JsonValues == {JsonList(b) : b \in Bodies} \cup {JsonObject}

NoLine == [kind |-> "none", dept |-> "", gender |-> ""]

----------------------------------------------------------------------------
(* fetchCourses *)

gndr == stdGnr[gi]
dept == deptid[di]

\* all pairs in iteration order: cohort outer, department inner
RECURSIVE PairsFrom(_, _)
PairsFrom(g, d) ==
    IF g > Len(stdGnr) THEN <<>>
    ELSE IF d > Len(deptid) THEN PairsFrom(g + 1, 1)
    ELSE <<[dept |-> deptid[d], gndr |-> stdGnr[g]]>> \o PairsFrom(g, d + 1)

PairOrder == PairsFrom(1, 1)

\* the for statements: bind the next pair, or leave the loops
NextIteration ==
    IF di < Len(deptid) THEN /\ di' = di + 1
                             /\ gi' = gi
                             /\ pc' = "request"
    ELSE IF gi < Len(stdGnr) THEN /\ gi' = gi + 1
                                  /\ di' = 1
                                  /\ pc' = "request"
    ELSE /\ pc' = "finally"
         /\ UNCHANGED <<gi, di>>

Break ==
    /\ pc' = "finally"
    /\ UNCHANGED <<gi, di>>

\* the continue statements
Continue == NextIteration

\* "Male" if gndr == "11" else "Female"
Label(g) == IF g = "11" THEN "Male" ELSE "Female"

IsMaleSwapped(g) == g = "12"

\* if gndr == "11"
IsMale(g) == g = "11"

AppendedUnchecked(data) == data.items

\* isinstance(data, list) guards the extend
Appended(data) == IF data.isList THEN data.items ELSE <<>>

PropagateNoFinally(e) ==
    /\ exc' = e
    /\ pc' = "raised"

\* try ... finally: an exception leaving the loops runs the finally clause first
Propagate(e) ==
    /\ exc' = e
    /\ pc' = "finally"

\* session.get(api_url, params={deptid: dept, stdGnr: gndr}, headers)
Issue == requests' = Append(requests, [dept |-> dept, gndr |-> gndr])

NeverBound(g) == FALSE

\* gender is bound once an earlier session.get of the run has returned
Bound(g) == g # "Unbound"

\* session.get raises; the handler formats its message with gender
SendRaises ==
    /\ pc = "request"
    /\ Issue
    /\ lastOutcome' = "send_raises"
    /\ IF ~Bound(gender)
       THEN \* the handler itself raises (gender is not bound): nothing is
            \* printed and the error leaves the loops
            /\ Propagate("UnboundLocalError")
            /\ printed' = NoLine
            /\ UNCHANGED <<gi, di>>
       ELSE /\ printed' = [kind |-> "error", dept |-> dept, gender |-> gender]
            /\ Continue
            /\ exc' = exc
    /\ UNCHANGED <<maleCoursesJson, femaleCoursesJson, gender, closeCount, sleeps,
                   received, exportVars>>

\* session.get returns a response whose status is not 200
Non200 ==
    /\ pc = "request"
    /\ Issue
    /\ gender' = Label(gndr)
    /\ lastOutcome' = "non200"
    /\ printed' = [kind |-> "failed", dept |-> dept, gender |-> Label(gndr)]
    /\ Continue
    /\ UNCHANGED <<maleCoursesJson, femaleCoursesJson, exc, closeCount, sleeps,
                   received, exportVars>>

\* status 200, response.json() raises
JsonRaises ==
    /\ pc = "request"
    /\ Issue
    /\ gender' = Label(gndr)
    /\ lastOutcome' = "json_raises"
    /\ printed' = [kind |-> "error", dept |-> dept, gender |-> Label(gndr)]
    /\ Continue
    /\ UNCHANGED <<maleCoursesJson, femaleCoursesJson, exc, closeCount, sleeps,
                   received, exportVars>>

\* status 200, response.json() returns data
Parsed ==
    /\ pc = "request"
    /\ \E data \in JsonValues :
        /\ data.isList => Len(received) < MaxListResponses
        /\ Issue
        /\ gender' = Label(gndr)
        /\ lastOutcome' = IF data.isList THEN "list" ELSE "nonlist"
        /\ IF IsMale(gndr)
           THEN /\ maleCoursesJson' = maleCoursesJson \o Appended(data)
                /\ femaleCoursesJson' = femaleCoursesJson
           ELSE /\ femaleCoursesJson' = femaleCoursesJson \o Appended(data)
                /\ maleCoursesJson' = maleCoursesJson
        /\ printed' = IF data.isList
                      THEN [kind |-> "fetched", dept |-> dept, gender |-> Label(gndr)]
                      ELSE NoLine
        /\ received' = IF data.isList
                       THEN Append(received, [gndr |-> gndr, body |-> data.items,
                                              first |-> requests = <<>>])
                       ELSE received
    /\ pc' = "sleep"
    /\ UNCHANGED <<gi, di, exc, closeCount, sleeps, exportVars>>

\* time.sleep(1), then the next iteration
Sleep ==
    /\ pc = "sleep"
    /\ sleeps' = sleeps + 1
    /\ NextIteration
    /\ UNCHANGED <<maleCoursesJson, femaleCoursesJson, gender, exc, closeCount,
                   requests, lastOutcome, printed, received, exportVars>>

FinallyNoClose ==
    /\ pc = "finally"
    /\ pc' = IF exc = "none" THEN "returned" ELSE "raised"
    /\ UNCHANGED <<fetchVars, exportVars>>

\* finally: session.close(), then return or re-raise
Finally ==
    /\ pc = "finally"
    /\ closeCount' = closeCount + 1
    /\ pc' = IF exc = "none" THEN "returned" ELSE "raised"
    /\ UNCHANGED <<gi, di, maleCoursesJson, femaleCoursesJson, gender, exc,
                   requests, sleeps, lastOutcome, printed, received, exportVars>>

----------------------------------------------------------------------------
(* convertJsonToCsv *)

NaN == "NaN"

NoFile == [exists |-> FALSE, bom |-> FALSE, header |-> <<>>, rows |-> <<>>]

\* a file left by an earlier run
OldFile == [exists |-> TRUE, bom |-> TRUE, header |-> <<"Course">>, rows |-> <<<<"old">>>>]

Keys(data) == UNION {DOMAIN data[i] : i \in 1..Len(data)}

\* pd.DataFrame(data): one row per record, one column per key of any record,
\* NaN where a record lacks the key
DataFrame(data) ==
    [columns |-> Keys(data),
     rows |-> [i \in 1..Len(data) |->
                 [c \in Keys(data) |-> IF c \in DOMAIN data[i] THEN data[i][c] ELSE NaN]]]

ColsOfFirstRecord(df) ==
    SelectSeq(cols, LAMBDA c : c \in df.columns /\ Len(df.rows) > 0 /\ df.rows[1][c] # NaN)

\* [c for c in cols if c in df.columns]
existing_cols(df) == SelectSeq(cols, LAMBDA c : c \in df.columns)

\* df[existing_cols]
Select(df, ec) ==
    [columns |-> ec,
     rows |-> [i \in 1..Len(df.rows) |-> [j \in 1..Len(ec) |-> df.rows[i][ec[j]]]]]

\* the text df.to_csv(index=False, encoding="utf-8-sig") produces: the byte
\* order mark, the header line, one line per row, NaN as the empty cell
ToCsv(df) ==
    [exists |-> TRUE,
     bom |-> TRUE,
     header |-> df.columns,
     rows |-> [i \in 1..Len(df.rows) |->
                 [j \in 1..Len(df.columns) |->
                     IF df.rows[i][j] = NaN THEN "" ELSE df.rows[i][j]]]]

OpenAppend(old, text) ==
    IF old.exists
    THEN [old EXCEPT !.rows = old.rows \o <<text.header>> \o text.rows]
    ELSE text

\* to_csv opens filePath for writing: earlier content is replaced
OpenWrite(old, text) == text

NeverEmpty(data) == FALSE

\* if not data
IsEmpty(data) == data = <<>>

DataSwapped(g) == IF g = "female" THEN maleCoursesJson ELSE femaleCoursesJson

\* data = maleCoursesJson if gndr == "male" else femaleCoursesJson
Data(g) == IF g = "male" THEN maleCoursesJson ELSE femaleCoursesJson

Enter ==
    /\ calls' = calls + 1
    /\ fsAtCall' = fs
    /\ written' = {}
    /\ egi' = 1
    /\ pc' = "makedirs"
    /\ UNCHANGED <<fs, fetchVars>>

\* __main__: male, female = fetchCourses(); convertJsonToCsv(male, female)
MainExport ==
    /\ pc = "returned"
    /\ Enter

\* convertJsonToCsv called on its own, again on the same accumulators
Call ==
    /\ pc \in {"idle", "exported"}
    /\ calls < MaxCalls
    /\ Enter

\* if not os.path.exists("public"): os.makedirs("public")
Makedirs ==
    /\ pc = "makedirs"
    /\ fs' = [fs EXCEPT !.dir = TRUE]
    /\ pc' = "cohort"
    /\ UNCHANGED <<egi, written, fsAtCall, calls, fetchVars>>

NextCohort ==
    IF egi < Len(gndrs) THEN egi' = egi + 1 /\ pc' = "cohort"
    ELSE egi' = egi /\ pc' = "exported"

\* empty accumulator: print the notice and continue
ExportSkip ==
    /\ pc = "cohort"
    /\ IsEmpty(Data(gndrs[egi]))
    /\ NextCohort
    /\ UNCHANGED <<fs, written, fsAtCall, calls, fetchVars>>

\* build the table, keep the expected columns, write the file
ExportWrite ==
    /\ pc = "cohort"
    /\ ~IsEmpty(Data(gndrs[egi]))
    /\ LET df == DataFrame(Data(gndrs[egi]))
           table == Select(df, existing_cols(df))
       IN fs' = [fs EXCEPT !.files[gndrs[egi]] = OpenWrite(@, ToCsv(table))]
    /\ written' = written \cup {gndrs[egi]}
    /\ NextCohort
    /\ UNCHANGED <<fsAtCall, calls, fetchVars>>

----------------------------------------------------------------------------
(* Specifications *)

NoFiles == [g \in {"male", "female"} |-> NoFile]

\* the output directory before the program runs
PriorFs ==
    {[dir |-> FALSE, files |-> NoFiles]}
    \cup {[dir |-> TRUE, files |-> [male |-> m, female |-> f]] :
             m \in {NoFile, OldFile}, f \in {NoFile, OldFile}}

RECURSIVE SeqsUpTo(_)
SeqsUpTo(n) ==
    IF n = 0 THEN {<<>>}
    ELSE SeqsUpTo(n - 1) \cup {Append(s, r) : s \in SeqsUpTo(n - 1), r \in Records}

InitFetchVars ==
    /\ gi = 1
    /\ di = 1
    /\ gender = "Unbound"
    /\ exc = "none"
    /\ closeCount = 0
    /\ requests = <<>>
    /\ sleeps = 0
    /\ lastOutcome = "none"
    /\ printed = NoLine
    /\ received = <<>>

InitExportVars ==
    /\ fs \in PriorFs
    /\ egi = 1
    /\ written = {}
    /\ fsAtCall = fs
    /\ calls = 0

\* the program: python main.py
Init ==
    /\ pc = "request"
    /\ maleCoursesJson = <<>>
    /\ femaleCoursesJson = <<>>
    /\ InitFetchVars
    /\ InitExportVars

Next ==
    \/ SendRaises
    \/ Non200
    \/ JsonRaises
    \/ Parsed
    \/ Sleep
    \/ Finally
    \/ MainExport
    \/ Makedirs
    \/ ExportSkip
    \/ ExportWrite

Spec == Init /\ [][Next]_vars

\* convertJsonToCsv on its own, on any two accumulators
InitExport ==
    /\ pc = "idle"
    /\ maleCoursesJson \in SeqsUpTo(MaxLen)
    /\ femaleCoursesJson \in SeqsUpTo(MaxLen)
    /\ InitFetchVars
    /\ InitExportVars

NextExport ==
    \/ Call
    \/ Makedirs
    \/ ExportSkip
    \/ ExportWrite

SpecExport == InitExport /\ [][NextExport]_vars

\* fetchCourses on its own; it does not touch the output directory
InitFetch ==
    /\ Init
    /\ fs = [dir |-> FALSE, files |-> NoFiles]

NextFetch ==
    \/ SendRaises
    \/ Non200
    \/ JsonRaises
    \/ Parsed
    \/ Sleep
    \/ Finally

\* every call fetchCourses makes returns or raises, and the interpreter
\* executes the next statement
SpecFetch == InitFetch /\ [][NextFetch]_vars /\ WF_vars(NextFetch)

----------------------------------------------------------------------------
(* Properties of fetchCourses, checked under Spec *)

FailureOutcomes == {"send_raises", "json_raises", "non200", "nonlist"}

\* a step in which session.get is called
Attempt == Len(requests') = Len(requests) + 1

\* C1: fetchCourses never raises to its caller, whatever the outcome of each
\* request, a transport exception on the very first request included.
C1_NeverRaises == pc # "raised"

\* C2: when fetchCourses finishes, each of the 24 (department, cohort) pairs
\* has been requested exactly once, in iteration order.
C2_EveryPairOnce == pc \in {"returned", "raised"} => requests = PairOrder

\* C3: an iteration whose request fails (transport exception, non-200
\* status, 200 with a body that is not a list) leaves both accumulators as
\* they were.
C3_FailedAddsNothing ==
    [][(Attempt /\ lastOutcome' \in FailureOutcomes)
        => UNCHANGED <<maleCoursesJson, femaleCoursesJson>>]_vars

C3_Witness ==
    /\ lastOutcome = "nonlist"
    /\ pc = "sleep"
    /\ maleCoursesJson # <<>>
    /\ femaleCoursesJson # <<>>

\* C4: a non-200 response for pair P leaves the length of the accumulator of
\* P's cohort unchanged, and the loop goes on to the pair that follows P in
\* iteration order, or leaves the loops without an error if P was the last.
C4_Non200Continues ==
    [][(Attempt /\ lastOutcome' = "non200")
        => /\ Len(maleCoursesJson') = Len(maleCoursesJson)
           /\ Len(femaleCoursesJson') = Len(femaleCoursesJson)
           /\ IF Len(requests') = Len(PairOrder)
              THEN pc' = "finally" /\ exc' = "none"
              ELSE /\ pc' = "request"
                   /\ [dept |-> deptid[di'], gndr |-> stdGnr[gi']]
                        = PairOrder[Len(requests') + 1]]_vars

C4_Witness ==
    /\ lastOutcome = "non200"
    /\ pc = "request"
    /\ gndr = "12"
    /\ femaleCoursesJson # <<>>

RECURSIVE BodiesOf(_, _)
\* the list bodies received for cohort g, concatenated in the order received
BodiesOf(g, log) ==
    IF log = <<>> THEN <<>>
    ELSE (IF Head(log).gndr = g THEN Head(log).body ELSE <<>>) \o BodiesOf(g, Tail(log))

\* C5: when fetchCourses returns, the male accumulator is the concatenation,
\* in request order, of the list bodies received for cohort "11", and the
\* female accumulator that of cohort "12"; export does not change them.
C5_Accumulators ==
    pc \in {"returned", "makedirs", "cohort", "exported"}
        => /\ maleCoursesJson = BodiesOf("11", received)
           /\ femaleCoursesJson = BodiesOf("12", received)

C5_Witness ==
    /\ pc = "returned"
    /\ Len(maleCoursesJson) = 2
    /\ Len(femaleCoursesJson) = 1

\* C6: whenever fetchCourses finishes, by returning or by an error leaving
\* the loops, the session has been closed exactly once, and once it is
\* closed no request is attempted.
C6_SessionClosedOnce ==
    /\ pc \in {"returned", "raised"} => closeCount = 1
    /\ pc \in {"request", "sleep", "finally"} => closeCount = 0

C6_Witness ==
    /\ pc = "raised"
    /\ closeCount = 1

\* C7: every request attempt, whatever its outcome, is followed by one pause
\* before the next request: when a request is about to be issued and when
\* the loops are left, there have been as many pauses as requests.
C7_PauseAfterEveryAttempt ==
    (exc = "none" /\ pc \in {"request", "finally", "returned"})
        => sleeps = Len(requests)

----------------------------------------------------------------------------
(* Properties of convertJsonToCsv, checked under SpecExport *)

Cohorts == {"male", "female"}

\* C8: in one call the file of a cohort is written if and only if the
\* cohort's accumulator is non-empty, whatever the other accumulator is; an
\* empty accumulator does not create a file.
C8_WrittenIffNonEmpty ==
    pc = "exported"
        => \A g \in Cohorts :
            /\ g \in written <=> Data(g) # <<>>
            /\ g \in written => fs.files[g].exists
            /\ (Data(g) = <<>> /\ ~fsAtCall.files[g].exists) => ~fs.files[g].exists

C8_Witness ==
    /\ pc = "exported"
    /\ maleCoursesJson # <<>>
    /\ femaleCoursesJson = <<>>
    /\ written = {"male"}
    /\ fs.files["male"].exists
    /\ ~fs.files["female"].exists

\* the names of cols that are a key of at least one record, in the order of cols
ExpectedHeader(data) ==
    SelectSeq(cols, LAMBDA c : \E i \in 1..Len(data) : c \in DOMAIN data[i])

\* C9: the exported table's columns are the ten expected names restricted to
\* those that are a key of at least one record, in the fixed order; there is
\* one row per record in accumulator order; a cell holds the record's value,
\* and is empty where the record lacks the column.
C9_Table ==
    pc = "exported"
        => \A g \in written :
            LET file == fs.files[g]
                data == Data(g)
            IN /\ file.header = ExpectedHeader(data)
               /\ Len(file.rows) = Len(data)
               /\ \A i \in 1..Len(data) :
                    /\ Len(file.rows[i]) = Len(file.header)
                    /\ \A j \in 1..Len(file.header) :
                        file.rows[i][j] = IF file.header[j] \in DOMAIN data[i]
                                          THEN data[i][file.header[j]]
                                          ELSE ""

C9_Witness ==
    /\ pc = "exported"
    /\ maleCoursesJson = <<r1, r2>>
    /\ fs.files["male"].header = <<"Course", "CRN">>
    /\ fs.files["male"].rows = <<(<<"101", "">>), (<<"102", "5">>)>>

\* C10: a second call on the same accumulators leaves the directory with the
\* same files and the same content in each as the first call left.
C10_Idempotent ==
    (pc = "exported" /\ calls >= 2) => fs = fsAtCall

C10_Witness ==
    /\ pc = "exported"
    /\ calls = 2
    /\ written = {"male", "female"}
    /\ fsAtCall.files["male"].exists

----------------------------------------------------------------------------
(* Properties of the whole program, checked under Spec *)

\* the first request (department "0901", cohort "11") was answered with a
\* non-empty list, and no other request so far with a non-empty list
OnlyFirstPairHasRecords ==
    /\ received # <<>>
    /\ received[1].first
    /\ received[1].body # <<>>
    /\ \A i \in 2..Len(received) : received[i].body = <<>>

\* C11: starting from an empty output directory, if the first request returns
\* a non-empty list and every other request returns an empty list or fails,
\* the run completes, the male file holds one data row per record of that
\* list, and the female file is not created.
C11_EndToEnd ==
    (OnlyFirstPairHasRecords /\ fsAtCall.files = NoFiles)
        => /\ pc # "raised"
           /\ exc = "none"
           /\ pc = "exported"
                => /\ fs.files["male"].exists
                   /\ Len(fs.files["male"].rows) = Len(received[1].body)
                   /\ ~fs.files["female"].exists

C11_Witness ==
    /\ pc = "exported"
    /\ OnlyFirstPairHasRecords
    /\ Len(received) = 2
    /\ fsAtCall.files = NoFiles
    /\ Len(requests) = Len(PairOrder)
    /\ Len(fs.files["male"].rows) = 2

\* the pair of the most recent request
LastPair == requests[Len(requests)]

\* C12: the message logged when a request fails at transport level names the
\* department and the cohort of the pair whose request failed: the label is
\* "Male" exactly when that pair's cohort code is "11", "Female" when "12".
C12_ErrorNamesFailingPair ==
    (lastOutcome \in {"send_raises", "json_raises"} /\ printed.kind = "error")
        => /\ printed.dept = LastPair.dept
           /\ printed.gender = "Male" <=> LastPair.gndr = "11"
           /\ printed.gender = "Female" <=> LastPair.gndr = "12"

\* fetchCourses has finished, by returning or by raising
FetchFinished == pc \in {"returned", "raised", "makedirs", "cohort", "exported"}

\* C13: fetchCourses finishes, after at most 24 request attempts and at most
\* 24 pauses, with the session closed, whatever the outcome of each request.
C13_Terminates ==
    /\ [](Len(requests) <= Len(PairOrder) /\ sleeps <= Len(PairOrder))
    /\ <>(FetchFinished /\ closeCount = 1)

C13_Witness ==
    /\ pc = "returned"
    /\ Len(requests) = 24
    /\ sleeps = 24
    /\ closeCount = 1

\* C14: a raise of the send or of the body parse is caught in its iteration,
\* and the loop goes on to the next pair, whenever a request of the run has
\* already returned a response; so if fetchCourses raises, it does so in the
\* first request attempt, with both accumulators empty and one request issued.
C14_RaisesOnlyAtFirstAttempt ==
    /\ (lastOutcome \in {"send_raises", "json_raises"} /\ gender # "Unbound")
        => /\ exc = "none"
           /\ pc # "raised"
           /\ Len(requests) < Len(PairOrder) => pc = "request"
    /\ (exc # "none" \/ pc = "raised")
        => /\ Len(requests) = 1
           /\ lastOutcome = "send_raises"
           /\ maleCoursesJson = <<>>
           /\ femaleCoursesJson = <<>>

C14_Witness ==
    /\ pc = "raised"
    /\ exc = "UnboundLocalError"
    /\ requests = <<PairOrder[1]>>
    /\ maleCoursesJson = <<>>
    /\ femaleCoursesJson = <<>>

----------------------------------------------------------------------------
(* Further properties of convertJsonToCsv, checked under SpecExport *)

\* C15: a call with an empty accumulator for a cohort leaves a file of that
\* cohort that already exists as it was, neither deleted nor truncated; a
\* cohort's file may be there after a call that had no record for the cohort.
C15_EmptyKeepsOldFile ==
    pc = "exported"
        => \A g \in Cohorts :
            (Data(g) = <<>> /\ fsAtCall.files[g].exists)
                => fs.files[g] = fsAtCall.files[g]

C15_Witness ==
    /\ pc = "exported"
    /\ calls = 1
    /\ femaleCoursesJson = <<>>
    /\ maleCoursesJson # <<>>
    /\ fsAtCall.files["female"] = OldFile
    /\ fs.files["female"] = OldFile

====
